---- MODULE Spec2Model ----
(***************************************************************************)
(* Anti-detection and rate-governed session layer of the MLS scraper       *)
(* (utils/mls-anti-detection.ts, kept in src/utils/global-setup.ts, and    *)
(* utils/browser-utils.ts).                                                *)
(*                                                                         *)
(* Time is in milliseconds, the unit of Date.now() and setTimeout.  The    *)
(* code reads a timestamp only through a difference with Date.now(), so    *)
(* every timestamp is kept as its age: sinceLast is Date.now() -           *)
(* lastRequestTime, a timer is the time left until its deadline.  The      *)
(* passing of d ms adds d to every age and takes d from every timer.  An   *)
(* age above resetInterval is kept as Stale: the code treats all such      *)
(* ages alike.                                                             *)
(*                                                                         *)
(* A synchronous stretch of an async function (from one await to the      *)
(* next) is one action: the event loop runs it to completion.  A timer may *)
(* fire when its deadline is reached, or a little later.                   *)
(***************************************************************************)
EXTENDS Integers, Sequences, FiniteSets, TLC

VARIABLES
    sinceLast,         \* Date.now() - RateLimiter.lastRequestTime
    requestCount,      \* RateLimiter.requestCount
    pc,                \* per flow: position inside waitIfNeeded
    sinceAtEntry,      \* per flow: now - lastRequestTime for the call's `now`
    timer,             \* per flow: time left on the pending setTimeout
    waits,             \* per flow: durations the current call asked to wait
    obs,               \* observer of a run of consecutive returns
    doc,               \* the page's current document (set of elements)
    captchaResult,     \* <<value>> returned by the last detectCaptcha, <<>> before it
    blockedRequests,   \* setupRequestMonitoring: the listener's counter
    cooling,           \* the handlers suspended in the 429 cooldown, oldest first
    responses,         \* number of responses the listener has been called with
    observedBlocked,   \* number of those whose URL matches a block pattern
    fatalCount,        \* number of times the listener has thrown
    lastDone,          \* the handling that completed last
    runPc,             \* Example 1: the statement the test function is at
    runStatus,         \* Example 1: "running", "passed" or "failed"
    attempt,           \* Example 1: 1 for the first run, +1 for each retry
    ci,                \* whether process.env.CI is set
    navigations,       \* Example 1: number of page.goto calls, all attempts
    file,              \* the session file at MLS_CONFIG.sessionFile
    context,           \* the browser context: open or not, its storage state
    loaded,            \* outcome of the last loadSession call
    persisted,         \* <<s>>: persistSession wrote s and the file is as it left it
    runNo,             \* Example 1: 1 for the first run of the script, +1 for each later one
    interval,          \* the timer made by setInterval: "none", "active", "cleared"
    jiggler,           \* what the caller of startMouseJiggler holds as the handle
    cancelCalled,      \* whether the caller has called clearInterval
    pulse,             \* counters of the ticks of the interval
    sim,               \* the simulate* call in progress: its frames, its outcome
    initScripts,       \* fingerprint init scripts registered on the context
    window,            \* the page's current document: what the init scripts did to it
    reads,             \* per overridden property, the last two values read in the document
    apply,             \* outcome of the last setupRealisticFingerprint call
    idle,              \* the waitForNetworkIdle call: its closure, its timer, its promise
    script,            \* the driving script that runs: its statement, its requests
    mouse              \* the simulateMouseMovement call: its points, its last move

governorVars == <<sinceLast, requestCount, pc, sinceAtEntry, timer, waits, obs>>
captchaVars == <<doc, captchaResult>>
monitorVars ==
    <<blockedRequests, cooling, responses, observedBlocked, fatalCount, lastDone>>
runVars == <<runPc, runStatus, attempt, ci, navigations>>
sessionVars == <<file, context, loaded, persisted>>
pulseVars == <<interval, jiggler, cancelCalled, pulse>>
behaviourVars == <<sim>>
fingerprintVars == <<initScripts, window, reads, apply>>
moreVars == <<idle, script, mouse>>
restVars == <<sessionVars, runNo, pulseVars, behaviourVars, fingerprintVars, moreVars>>
\* all but the session file and the context
nonSessionVars ==
    <<governorVars, captchaVars, monitorVars, runVars, runNo, pulseVars, behaviourVars,
      fingerprintVars, moreVars>>
\* all but the idle pulse
nonPulseVars ==
    <<governorVars, captchaVars, monitorVars, runVars, sessionVars, runNo, behaviourVars,
      fingerprintVars, moreVars>>
\* all but the simulate* call and the context
nonBehaviourVars ==
    <<governorVars, captchaVars, monitorVars, runVars, file, loaded, persisted, runNo,
      pulseVars, fingerprintVars, moreVars>>
\* all but the fingerprint
nonFingerprintVars ==
    <<governorVars, captchaVars, monitorVars, runVars, sessionVars, runNo, pulseVars,
      behaviourVars, moreVars>>
vars == <<governorVars, captchaVars, monitorVars, runVars, restVars>>

---------------------------------------------------------------------------
(* Strings are sequences of fragments; a fragment stands for a run of      *)
(* characters.  "recaptcha" is <<"re", "captcha">>.                        *)

Max(a, b) == IF a >= b THEN a ELSE b

Min(a, b) == IF a <= b THEN a ELSE b

\* String.prototype.includes / the CSS attribute operator *= : s has sub as a
\* contiguous substring.
Includes(s, sub) ==
    \E i \in 0..(Len(s) - Len(sub)) :
        \A j \in 1..Len(sub) : s[i + j] = sub[j]

RECURSIVE JoinWithSpace(_)
\* the class attribute as written in the markup: class names joined by " "
JoinWithSpace(names) ==
    IF names = <<>> THEN <<>>
    ELSE IF Len(names) = 1 THEN names[1]
    ELSE names[1] \o <<" ">> \o JoinWithSpace(Tail(names))

---------------------------------------------------------------------------
(* detectCaptcha: a point-in-time scan of the current document.            *)

\* An element of the document: tag, src attribute, id attribute and class
\* names; an absent attribute is the empty string.
Element(tag, src, id, classes) ==
    [tag |-> tag, src |-> src, id |-> id, classes |-> classes]

\* The elements documents are built from: every marker alone, and elements
\* that look similar and match no marker.
ElementPool ==
    { Element("iframe", <<"//google/", "re", "captcha", "/api2">>, <<>>, <<>>),
      Element("iframe", <<"/h", "captcha", "/frame">>, <<>>, <<>>),
      Element("iframe", <<"/ads">>, <<>>, <<>>),
      Element("div", <<>>, <<>>, << <<"box">>, <<"g-", "re", "captcha">> >>),
      Element("div", <<>>, <<"captcha">>, <<>>),
      Element("div", <<>>, <<"re", "captcha">>, <<>>),
      Element("div", <<>>, <<>>, << <<"my-", "captcha", "-box">> >>),
      Element("img", <<"/", "captcha", ".png">>, <<>>, <<>>),
      Element("img", <<"/logo.png">>, <<>>, <<>>),
      Element("script", <<"/", "re", "captcha", ".js">>, <<>>, <<>>) }

\* A selector of the list: an optional tag and one attribute test.
Selector(tag, test, arg) == [tag |-> tag, test |-> test, arg |-> arg]

captchaSelectors ==
    << Selector("iframe", "src*=", <<"re", "captcha">>),
       Selector("iframe", "src*=", <<"captcha">>),
       Selector("*", ".", <<"g-", "re", "captcha">>),
       Selector("*", "#", <<"captcha">>),
       Selector("*", "class*=", <<"captcha">>),
       Selector("img", "src*=", <<"captcha">>) >>

\* CSS matching of one element against one selector
Matches(e, sel) ==
    /\ sel.tag \in {"*", e.tag}
    /\ CASE sel.test = "src*="   -> Includes(e.src, sel.arg)
         [] sel.test = "."       -> \E i \in 1..Len(e.classes) : e.classes[i] = sel.arg
         [] sel.test = "#"       -> e.id = sel.arg
         [] sel.test = "class*=" -> Includes(JoinWithSpace(e.classes), sel.arg)

\* page.locator(selector).count()
LocatorCount(d, sel) == Cardinality({e \in d : Matches(e, sel)})

RECURSIVE DetectSkipLast(_, _)
\* a mutant of DetectFrom: the loop stops one selector short
DetectSkipLast(d, i) ==
    IF i > Len(captchaSelectors) - 1 THEN FALSE
    ELSE IF LocatorCount(d, captchaSelectors[i]) > 0 THEN TRUE
    ELSE DetectSkipLast(d, i + 1)

RECURSIVE DetectFrom(_, _)
\* the for loop over captchaSelectors, entered at index i
DetectFrom(d, i) ==
    IF i > Len(captchaSelectors) THEN FALSE
    ELSE IF LocatorCount(d, captchaSelectors[i]) > 0 THEN TRUE
    ELSE DetectFrom(d, i + 1)

detectCaptcha(d) == DetectFrom(d, 1)

\* Elements in a document at most.
MaxElements == 3

DocPool == {d \in SUBSET ElementPool : Cardinality(d) <= MaxElements}

---------------------------------------------------------------------------
(* Choices of the exploration.                                             *)

\* How long after its deadline a timer may fire.
Lates == {0, 1000}

\* Time the driving script lets pass between two calls (it may also let
\* none pass).
IdleGaps == {1000, 2000, 60000, 61000}

\* The flows that may call into one RateLimiter instance.
Flows == {1, 2}

---------------------------------------------------------------------------
(* randomDelay (browser-utils.ts) and the RateLimiter class.               *)

resetInterval == 60000

maxRequests == 30

\* the literal 2000 of "timeSinceLastRequest < 2000" and "2000 - timeSince..."
minSpacing == 2000

\* the literal 4000, upper end of the natural delay
maxJitter == 4000

\* every age above resetInterval
Stale == resetInterval + 1

Age(t) == IF t > resetInterval THEN Stale ELSE t

\* randomDelay(min, max): delay = floor(Math.random() * (max - min + 1)) + min
\* with Math.random() in [0, 1).  The result is the range of delays that can
\* be drawn: min..max when max >= min, and (max + 1)..min otherwise.
randomDelay(min, max) ==
    LET span == max - min + 1
    IN  IF span > 0 THEN [lo |-> min, hi |-> max]
        ELSE [lo |-> min + span, hi |-> min]

\* The draws explored for a range: its two ends.
Draws(range) == {range.lo, range.hi}

\* a mutant of Timeout: the delay is not handed to setTimeout
TimeoutDropped(ms) == 0

\* setTimeout(resolve, ms): the time to the deadline; a negative ms does not
\* wait.
Timeout(ms) == Max(ms, 0)

\* a mutant of ResetIfStale: the counter is never reset by the passing of time
ResetNever(since, cnt) == cnt

\* "if (now - this.lastRequestTime > this.resetInterval) this.requestCount = 0"
\* since is now - lastRequestTime
ResetIfStale(since, cnt) == IF since > resetInterval THEN 0 ELSE cnt

\* a mutant of LimitReached: > for >=
LimitExceeded(cnt) == cnt > maxRequests

\* "if (this.requestCount >= this.maxRequests)"
LimitReached(cnt) == cnt >= maxRequests

\* "const waitTime = this.resetInterval - (now - this.lastRequestTime)"
WaitTime(since) == resetInterval - since

\* a mutant of NeedsSpacing: the natural delay is never taken
NeedsNoSpacing(since) == FALSE

\* "if (timeSinceLastRequest < 2000)"
NeedsSpacing(since) == since < minSpacing

\* a mutant of SpacingDelay: the lower end does not make up the floor
SpacingDelayShort(since) == randomDelay(0, maxJitter)

\* a mutant of SpacingDelay: the upper end is too high
SpacingDelayWide(since) == randomDelay(minSpacing - since, maxJitter + minSpacing)

\* "randomDelay(2000 - timeSinceLastRequest, 4000)"
SpacingDelay(since) == randomDelay(minSpacing - since, maxJitter)

\* a mutant of RecordRequest: the request is counted twice
RecordTwice(cnt) == [since |-> 0, count |-> cnt + 2]

\* "this.lastRequestTime = Date.now(); this.requestCount++": the new age of
\* lastRequestTime and the new count
RecordRequest(cnt) == [since |-> 0, count |-> cnt + 1]

(* The observer follows one run of consecutive returns of waitIfNeeded: it  *)
(* picks a return, then counts it and the returns after it up to            *)
(* maxRequests + 1.  sinceStart is the time since the picked return, burst  *)
(* whether every later call was issued at the very time the previous one    *)
(* returned.  A run that is not a burst is dropped at the first return more *)
(* than resetInterval after its start: no later return lies in the window   *)
(* that opened at the start.                                                *)
ObsIdle == [count |-> 0, sinceStart |-> 0, burst |-> FALSE]

\* the observer switched off: it follows no run
ObsOff == [count |-> -1, sinceStart |-> 0, burst |-> FALSE]

ObsStart == [count |-> 1, sinceStart |-> 0, burst |-> TRUE]

\* the observer at a return of a call that was entered `since` after the
\* previous return
Observe(o, since) ==
    LET burst == o.burst /\ since = 0
    IN  IF o.count < 0 THEN {o}
        ELSE IF \/ o.count = 0
           \/ o.count > maxRequests
           \/ (o.sinceStart > resetInterval /\ ~burst)
        THEN {ObsIdle, ObsStart}
        ELSE {[count |-> o.count + 1, sinceStart |-> o.sinceStart, burst |-> burst]}

\* the flow suspends on a timer of d ms
Sleep(f, label, d, w) ==
    /\ pc' = [pc EXCEPT ![f] = label]
    /\ timer' = [timer EXCEPT ![f] = Timeout(d)]
    /\ waits' = [waits EXCEPT ![f] = Append(w, d)]

\* lines 221-222: the call records the request and returns
Record(f, since, cnt) ==
    LET rec == RecordRequest(cnt)
    IN  /\ sinceLast' = rec.since
        /\ requestCount' = rec.count
        /\ pc' = [pc EXCEPT ![f] = "idle"]
        /\ sinceAtEntry' = [sinceAtEntry EXCEPT ![f] = 0]
        /\ timer' = [timer EXCEPT ![f] = 0]
        /\ waits' = [waits EXCEPT ![f] = <<>>]
        /\ obs' \in Observe(obs, since)

\* lines 215-222: the natural delay, entered with the count cnt
Spacing(f, since, cnt, w) ==
    IF NeedsSpacing(since)
    THEN \E d \in Draws(SpacingDelay(since)) :
            /\ Sleep(f, "jitterWait", d, w)
            /\ sinceAtEntry' = [sinceAtEntry EXCEPT ![f] = since]
            /\ requestCount' = cnt
            /\ UNCHANGED <<sinceLast, obs>>
    ELSE Record(f, since, cnt)

\* waitIfNeeded() from its entry to its first await, or to its return
Enter(f) ==
    /\ pc[f] = "idle"
    /\ LET cnt == ResetIfStale(sinceLast, requestCount)
       IN  IF LimitReached(cnt)
           THEN /\ Sleep(f, "limitWait", WaitTime(sinceLast), <<>>)
                /\ sinceAtEntry' = [sinceAtEntry EXCEPT ![f] = sinceLast]
                /\ requestCount' = cnt
                /\ UNCHANGED <<sinceLast, obs>>
           ELSE Spacing(f, sinceLast, cnt, <<>>)

\* a flow of its own calls waitIfNeeded()
Call(f) ==
    /\ Enter(f)
    /\ UNCHANGED <<captchaVars, monitorVars, runVars, restVars>>

\* the rate-limit timer fired: "this.requestCount = 0", then lines 215-222
AfterLimitWait(f) ==
    /\ pc[f] = "limitWait"
    /\ timer[f] <= 0
    /\ Spacing(f, sinceAtEntry[f], 0, waits[f])
    /\ UNCHANGED <<captchaVars, monitorVars, runVars, restVars>>

\* the natural delay ended: lines 221-222
AfterJitter(f) ==
    /\ pc[f] = "jitterWait"
    /\ timer[f] <= 0
    /\ Record(f, sinceAtEntry[f], requestCount)
    /\ UNCHANGED <<captchaVars, monitorVars, runVars, restVars>>

---------------------------------------------------------------------------
(* setupRequestMonitoring: the 'response' listener.  The page emits the    *)
(* event and does not await the listener: a handler suspended in the       *)
(* cooldown runs on while later responses are handled.                     *)

\* Responses the listener is called with at most.
MaxResponses == 5

\* Handlers suspended in the cooldown at one time at most.
MaxCooling == 1

\* Time that may pass, short of the next deadline, while a handler cools down.
CoolingSteps == {30000}

Statuses == {200, 401, 403, 429}

\* URLs of responses: no pattern, "/blocked", "/denied", and "blocked"
\* without the slash before it.
UrlPool ==
    { <<"https://mls", "/", "matrix", "/", "search">>,
      <<"https://mls", "/", "blocked">>,
      <<"https://mls", "/", "access", "/", "denied", "?r=1">>,
      <<"https://mls", "/", "search", "?state=", "blocked">> }

\* "blockedRequests > 3"
blockThreshold == 3

\* "response.status() === 429"
IsRateLimit(status) == status = 429

\* a mutant of CooldownDelay: a digit is lost from each end
CooldownShort == randomDelay(3000, 6000)

\* "randomDelay(30000, 60000)"
CooldownDelay == randomDelay(30000, 60000)

\* a mutant of IsAuthIssue: 403 is left out
IsUnauthorized(status) == status = 401

\* "response.status() === 401 || response.status() === 403"
IsAuthIssue(status) == status = 401 \/ status = 403

\* "url.includes('/blocked') || url.includes('/denied')"
IsBlockPage(url) == Includes(url, <<"/", "blocked">>) \/ Includes(url, <<"/", "denied">>)

\* a mutant of ThresholdExceeded: >= for >
ThresholdReached(n) == n >= blockThreshold

\* "if (blockedRequests > 3)", after the increment
ThresholdExceeded(n) == n > blockThreshold

\* a mutant of AuthAndBlockCheck: the three checks chained with else, so
\* that the block pattern is looked for only when the status is none of 429,
\* 401, 403
FirstMatchCheck(status, url, n) ==
    LET hit == ~IsRateLimit(status) /\ ~IsAuthIssue(status) /\ IsBlockPage(url)
        m == IF hit THEN n + 1 ELSE n
    IN  [signals |-> (IF IsAuthIssue(status) THEN {"AuthRejected"} ELSE {})
                        \cup (IF hit THEN {"BlockedPattern"} ELSE {}),
         blocked |-> m,
         raised |-> hit /\ ThresholdExceeded(m)]

\* Lines 296-309, which every handler runs, at once or after its cooldown:
\* the authentication warning, then the block-pattern check on the counter n.
\* Gives the warnings logged, the counter, and whether the handler throws.
AuthAndBlockCheck(status, url, n) ==
    LET hit == IsBlockPage(url)
        m == IF hit THEN n + 1 ELSE n
    IN  [signals |-> (IF IsAuthIssue(status) THEN {"AuthRejected"} ELSE {})
                        \cup (IF hit THEN {"BlockedPattern"} ELSE {}),
         blocked |-> m,
         raised |-> hit /\ ThresholdExceeded(m)]

NoHandling ==
    [status |-> 0, url |-> <<>>, signals |-> {}, cooldown |-> 0, took |-> 0,
     blocked |-> 0, raised |-> FALSE]

\* a handler runs lines 296-309 and ends; cooldown is the delay it asked for
\* (0: none) and took the time since the response was observed
Complete(status, url, early, cooldown, took) ==
    LET r == AuthAndBlockCheck(status, url, blockedRequests)
    IN  /\ blockedRequests' = r.blocked
        /\ fatalCount' = IF r.raised THEN fatalCount + 1 ELSE fatalCount
        /\ lastDone' = [status |-> status, url |-> url,
                        signals |-> early \cup r.signals,
                        cooldown |-> cooldown, took |-> took,
                        blocked |-> r.blocked, raised |-> r.raised]

\* the page emits 'response': the listener runs to its await, or to its end
ObserveResponse(status, url) ==
    /\ responses < MaxResponses
    /\ responses' = responses + 1
    /\ observedBlocked' = IF IsBlockPage(url) THEN observedBlocked + 1
                          ELSE observedBlocked
    /\ IF IsRateLimit(status)
       THEN /\ Len(cooling) < MaxCooling
            /\ \E d \in Draws(CooldownDelay) :
                 cooling' = Append(cooling, [status |-> status, url |-> url,
                                             cooldown |-> d, timer |-> Timeout(d)])
            /\ UNCHANGED <<blockedRequests, fatalCount, lastDone>>
       ELSE /\ Complete(status, url, {}, 0, 0)
            /\ UNCHANGED cooling
    /\ UNCHANGED <<governorVars, captchaVars, runVars, restVars>>

\* the cooldown of the i-th suspended handler is over
FinishCooldown(i) ==
    /\ i \in 1..Len(cooling)
    /\ cooling[i].timer <= 0
    /\ Complete(cooling[i].status, cooling[i].url, {"RateLimited"},
                cooling[i].cooldown, cooling[i].cooldown - cooling[i].timer)
    /\ cooling' = [j \in 1..(Len(cooling) - 1) |->
                      IF j < i THEN cooling[j] ELSE cooling[j + 1]]
    /\ UNCHANGED <<responses, observedBlocked, governorVars, captchaVars, runVars, restVars>>

---------------------------------------------------------------------------
(* The page and the point-in-time CAPTCHA check.                           *)

\* the page shows another document
LoadDocument(d) ==
    /\ doc' = d
    /\ captchaResult' = <<>>
    /\ UNCHANGED <<governorVars, monitorVars, runVars, restVars>>

\* "await detectCaptcha(page)"
DetectCaptcha ==
    /\ captchaResult' = <<detectCaptcha(doc)>>
    /\ UNCHANGED <<doc, governorVars, monitorVars, runVars, restVars>>

---------------------------------------------------------------------------
(* persistSession and loadSession.  The session file holds the text that   *)
(* context.storageState({ path }) writes, the JSON of the context's        *)
(* cookies and origins; a text is a sequence of tokens.                    *)

\* what loadSession returns for "no state": null
NoSession == [null |-> TRUE]

\* the storage state of a context that was given none
EmptyState == [cookies |-> <<>>, origins |-> <<>>]

Cookie(name, value) == [name |-> name, value |-> value]

\* storage states a context may be in
States ==
    { EmptyState,
      [cookies |-> <<Cookie("sid", "a1")>>, origins |-> <<>>],
      [cookies |-> <<Cookie("sid", "b2"), Cookie("auth", "tok")>>, origins |-> <<>>],
      [cookies |-> <<Cookie("sid", "a1")>>, origins |-> <<"https://mls">>] }

\* the tokens of the text that are not values
Punctuation == {"{", "}", "[", "]", "cookies", "origins", "null"}

RECURSIVE CookiesText(_)
CookiesText(cookies) ==
    IF cookies = <<>> THEN <<>>
    ELSE <<"{", Head(cookies).name, Head(cookies).value, "}">>
            \o CookiesText(Tail(cookies))

\* a mutant of Stringify: the origins are left out of the text
StringifyCookies(s) ==
    <<"{", "cookies", "[">> \o CookiesText(s.cookies) \o <<"]", "}">>

\* JSON.stringify of a storage state, as storageState({ path }) writes it
Stringify(s) ==
    <<"{", "cookies", "[">> \o CookiesText(s.cookies)
        \o <<"]", "origins", "[">> \o s.origins \o <<"]", "}">>

ParseError == [ok |-> FALSE, value |-> NoSession, next |-> 0]

\* the cookie objects from token i up to the closing bracket
RECURSIVE ParseCookies(_, _, _)
ParseCookies(text, i, acc) ==
    IF i > Len(text) THEN ParseError
    ELSE IF text[i] = "]" THEN [ok |-> TRUE, value |-> acc, next |-> i + 1]
    ELSE IF /\ text[i] = "{"
            /\ i + 3 <= Len(text)
            /\ text[i + 1] \notin Punctuation
            /\ text[i + 2] \notin Punctuation
            /\ text[i + 3] = "}"
         THEN ParseCookies(text, i + 4, Append(acc, Cookie(text[i + 1], text[i + 2])))
         ELSE ParseError

\* the origins from token i up to the closing bracket
RECURSIVE ParseOrigins(_, _, _)
ParseOrigins(text, i, acc) ==
    IF i > Len(text) THEN ParseError
    ELSE IF text[i] = "]" THEN [ok |-> TRUE, value |-> acc, next |-> i + 1]
    ELSE IF text[i] \notin Punctuation
         THEN ParseOrigins(text, i + 1, Append(acc, text[i]))
         ELSE ParseError

\* JSON.parse: the value of the text, or a SyntaxError
Parse(text) ==
    IF text = <<"null">> THEN [ok |-> TRUE, value |-> NoSession, next |-> 2]
    ELSE IF Len(text) < 3 \/ SubSeq(text, 1, 3) # <<"{", "cookies", "[">>
    THEN ParseError
    ELSE LET c == ParseCookies(text, 4, <<>>)
         IN  IF ~c.ok \/ c.next + 1 > Len(text)
                \/ SubSeq(text, c.next, c.next + 1) # <<"origins", "[">>
             THEN ParseError
             ELSE LET o == ParseOrigins(text, c.next + 2, <<>>)
                  IN  IF o.ok /\ o.next = Len(text) /\ text[o.next] = "}"
                      THEN [ok |-> TRUE,
                            value |-> [cookies |-> c.value, origins |-> o.value],
                            next |-> o.next + 1]
                      ELSE ParseError

AbsentFile == [kind |-> "absent", text |-> <<>>]

TextFile(text) == [kind |-> "file", text |-> text]

\* texts that JSON.parse rejects: empty, cut short, not JSON, trailing junk
BrokenTexts ==
    { <<>>, <<"not json">>, <<"{", "cookies", "[">>,
      <<"{", "cookies", "[", "{", "sid", "}", "]", "origins", "[", "]", "}">>,
      <<"{", "cookies", "[", "]", "origins", "[", "]", "}", "}">> }

\* what may be found at the path: nothing, something that cannot be read
\* (a directory, no permission), a written state, null, a broken text
FilePool ==
    {AbsentFile, [kind |-> "unreadable", text |-> <<>>], TextFile(<<"null">>)}
        \cup {TextFile(Stringify(st)) : st \in States}
        \cup {TextFile(t) : t \in BrokenTexts}

NotLoaded == [called |-> FALSE, value |-> NoSession, raised |-> FALSE, warned |-> FALSE]

\* a mutant of LoadSessionResult: the body without its try/catch
LoadUncaught(f) ==
    IF f.kind = "absent"
    THEN [called |-> TRUE, value |-> NoSession, raised |-> FALSE, warned |-> FALSE]
    ELSE IF f.kind = "unreadable" \/ ~Parse(f.text).ok
    THEN [called |-> TRUE, value |-> NoSession, raised |-> TRUE, warned |-> FALSE]
    ELSE [called |-> TRUE, value |-> Parse(f.text).value, raised |-> FALSE, warned |-> FALSE]

\* loadSession on the file f: existsSync, readFileSync and JSON.parse
\* inside try, console.warn in catch, "return null" after it
LoadSessionResult(f) ==
    IF f.kind = "absent"
    THEN [called |-> TRUE, value |-> NoSession, raised |-> FALSE, warned |-> FALSE]
    ELSE IF f.kind = "unreadable" \/ ~Parse(f.text).ok
    THEN [called |-> TRUE, value |-> NoSession, raised |-> FALSE, warned |-> TRUE]
    ELSE [called |-> TRUE, value |-> Parse(f.text).value, raised |-> FALSE, warned |-> FALSE]

\* "sessionData || {}": the object handed to browser.newContext
ContextOptions(value) == IF value = NoSession THEN <<>> ELSE value

\* browser.newContext(options): the context starts with the state that the
\* option storageState names, and with none when there is no such option;
\* properties that are no options are ignored
NewContextState(options) ==
    IF "storageState" \in DOMAIN options THEN options.storageState ELSE EmptyState

\* "await loadSession(sessionPath)"
LoadSession ==
    /\ loaded' = LoadSessionResult(file)
    /\ UNCHANGED <<file, context, persisted>>
    /\ UNCHANGED nonSessionVars

\* "await context.storageState({ path: sessionPath })" on an open context:
\* the file is replaced by the text of the context's state
PersistSession ==
    /\ context.open
    /\ file' = TextFile(Stringify(context.state))
    /\ persisted' = <<context.state>>
    /\ UNCHANGED <<context, loaded>>
    /\ UNCHANGED nonSessionVars

\* the site sets or clears cookies and storage in the open context
SiteSetsState(st) ==
    /\ context.open
    /\ context' = [context EXCEPT !.state = st]
    /\ UNCHANGED <<file, loaded, persisted>>
    /\ UNCHANGED nonSessionVars

\* something else than persistSession changes what is at the path
ExternalWrite(f) ==
    /\ file' = f
    /\ persisted' = <<>>
    /\ UNCHANGED <<context, loaded>>
    /\ UNCHANGED nonSessionVars

---------------------------------------------------------------------------
(* startMouseJiggler.  The function is async: what it returns is a promise *)
(* of the timer that setInterval made.  The timer calls an async callback  *)
(* and does not await it; the callback has its whole body in a try.        *)

\* Ticks of one interval at most.
MaxTicks == 3

NoPulse ==
    [ticks |-> 0, pending |-> 0, swallowed |-> 0, unhandled |-> 0,
     afterFailure |-> 0, afterCancel |-> 0]

\* what a caller holds: the promise when it does not await the call, the
\* timer when it does
Handle(awaited) == IF awaited THEN "timer" ELSE "promise"

\* clearInterval(handle) on the timer tm: a timer object stops the timer, a
\* promise is no timer and stops nothing
ClearInterval(handle, tm) ==
    IF handle = "timer" /\ tm = "active" THEN "cleared" ELSE tm

\* a mutant of OnMoveFailure: the callback without its try/catch
OnMoveFailureUncaught(p) ==
    [p EXCEPT !.pending = @ - 1, !.unhandled = @ + 1]

\* "catch (error) { // Page might be closed }"
OnMoveFailure(p) ==
    [p EXCEPT !.pending = @ - 1, !.swallowed = @ + 1]

\* the interval fires: the callback runs up to "await page.mouse.move"
PulseTick(viewport) ==
    /\ interval = "active"
    /\ pulse.ticks < MaxTicks
    /\ pulse' = [pulse EXCEPT
                   !.ticks = @ + 1,
                   !.pending = IF viewport THEN @ + 1 ELSE @,
                   !.afterFailure = IF pulse.swallowed > 0 THEN @ + 1 ELSE @,
                   !.afterCancel = IF cancelCalled THEN @ + 1 ELSE @]
    /\ UNCHANGED <<interval, jiggler, cancelCalled>>
    /\ UNCHANGED nonPulseVars

\* a pointer move settles: it fails when the page is closed, and may fail
\* or succeed when it is open
MoveSettles(ok) ==
    /\ pulse.pending > 0
    /\ ok => context.open
    /\ pulse' = IF ok THEN [pulse EXCEPT !.pending = @ - 1] ELSE OnMoveFailure(pulse)
    /\ UNCHANGED <<interval, jiggler, cancelCalled>>
    /\ UNCHANGED nonPulseVars

---------------------------------------------------------------------------
(* simulateMouseMovement, humanScroll and simulateRealisticBehavior.  Each *)
(* is a sequence of awaited page inputs; none has a try/catch, so an input *)
(* that rejects rejects the call, and the call that awaits it.             *)

\* how many inputs or actions a call draws: "3 + Math.floor(Math.random() *
\* 3)" points, "2 + Math.floor(Math.random() * 3)" scrolls, "1 +
\* Math.floor(Math.random() * 3)" actions
Draw(op) ==
    CASE op = "simulateMouseMovement" -> 3..5
      [] op = "humanScroll" -> 2..4
      [] op = "simulateRealisticBehavior" -> 1..3

SimulateOps == {"simulateMouseMovement", "humanScroll", "simulateRealisticBehavior"}

\* the five entries of `actions` in simulateRealisticBehavior
BehaviourActions == {"simulateMouseMovement", "humanScroll", "Tab", "Escape", "click"}

NoSimulation == [stack |-> <<>>, outcome |-> "none", last |-> "none"]

\* a call that has `left` inputs or actions to go; up: humanScroll is about
\* to scroll up a bit ("Math.random() > 0.7")
Frame(op, left) == [op |-> op, left |-> left, up |-> FALSE]

\* the page input that a call or an action awaits
InputOf(op) ==
    CASE op = "simulateMouseMovement" -> "mouse.move"
      [] op = "humanScroll" -> "mouse.wheel"
      [] op = "click" -> "mouse.click"
      [] OTHER -> "keyboard.press"

\* the frames once the innermost call has done one more of its inputs
RECURSIVE Unwind(_)
Unwind(stack) ==
    IF stack = <<>> THEN <<>>
    ELSE LET top == stack[Len(stack)]
             below == SubSeq(stack, 1, Len(stack) - 1)
         IN  IF top.left > 1
             THEN Append(below, Frame(top.op, top.left - 1))
             ELSE Unwind(below)

\* an input of the innermost call resolved
AfterInput(stack, input) ==
    LET rest == Unwind(stack)
    IN  [stack |-> rest, outcome |-> IF rest = <<>> THEN "returned" ELSE "running",
         last |-> input]

\* an input rejected: the rejection goes up through every awaiting call
AfterRejection(stack, input) == [stack |-> <<>>, outcome |-> "raised", last |-> input]

\* the caller calls one of the three on the page
StartSimulate(op, n) ==
    /\ sim.stack = <<>>
    /\ n \in Draw(op)
    /\ sim' = [stack |-> <<Frame(op, n)>>, outcome |-> "running", last |-> "none"]
    /\ UNCHANGED context
    /\ UNCHANGED nonBehaviourVars

\* the innermost call awaits its next input: page.mouse.move, .wheel,
\* .click or page.keyboard.press, which rejects when the page is closed
SimulateInput(scrollUp) ==
    /\ sim.stack # <<>>
    /\ LET top == sim.stack[Len(sim.stack)]
       IN  /\ top.op # "simulateRealisticBehavior"
           /\ scrollUp => (top.op = "humanScroll" /\ ~top.up)
           /\ sim' = IF ~context.open THEN AfterRejection(sim.stack, InputOf(top.op))
                     ELSE IF scrollUp
                     THEN [sim EXCEPT !.stack[Len(sim.stack)].up = TRUE,
                                      !.last = InputOf(top.op)]
                     ELSE AfterInput(sim.stack, InputOf(top.op))
    /\ UNCHANGED context
    /\ UNCHANGED nonBehaviourVars

\* simulateRealisticBehavior picks its next action
SimulateAction(action, n) ==
    /\ sim.stack # <<>>
    /\ sim.stack[Len(sim.stack)].op = "simulateRealisticBehavior"
    /\ IF action \in SimulateOps
       THEN /\ n \in Draw(action)
            /\ sim' = [sim EXCEPT !.stack = Append(@, Frame(action, n))]
       ELSE /\ n = 1
            /\ sim' = IF context.open THEN AfterInput(sim.stack, InputOf(action))
                      ELSE AfterRejection(sim.stack, InputOf(action))
    /\ UNCHANGED context
    /\ UNCHANGED nonBehaviourVars

\* the page is closed while the call is in progress
ClosePage ==
    /\ context.open
    /\ context' = [context EXCEPT !.open = FALSE]
    /\ UNCHANGED sim
    /\ UNCHANGED nonBehaviourVars

---------------------------------------------------------------------------
(* setupRealisticFingerprint.  context.addInitScript registers a script    *)
(* that the browser runs in every document the context creates afterwards, *)
(* in the order of registration and before the page's own scripts.  The    *)
(* getters that the script installs call Math.random() at every read.      *)

\* Calls of setupRealisticFingerprint on one context at most.
MaxInstalls == 2

\* canvas.getContext('2d') calls in one document at most.
MaxGetContext == 2

\* "viewport: { width: 1920, height: 1080 }": the screen of the context
Screen == [width |-> 1920, height |-> 1080]

\* what the machine reports without an override
RealCores == {12}

\* "[2, 4, 8, 16]"
CoreCandidates == {2, 4, 8, 16}

Properties == {"hardwareConcurrency", "availWidth", "availHeight"}

\* no document yet
NoWindow ==
    [exists |-> FALSE, scripts |-> 0, errors |-> 0, getContextWraps |-> 0,
     audioWraps |-> 0, screenBy |-> 0, batteryBy |-> 0, coresBy |-> 0, pluginsBy |-> 0,
     getContexts |-> 0, layers |-> 0, shift |-> 0]

\* a new document, before any init script
FreshWindow == [NoWindow EXCEPT !.exists = TRUE]

\* the k-th registered script runs in the document: it wraps getContext and
\* createOscillator (lines 105-128), then defines the properties (lines
\* 131-162).  Object.defineProperty without "configurable" makes a property
\* that cannot be defined again: in a document where an earlier copy of the
\* script ran, line 131 throws a TypeError and the rest does not run.
RunScript(w, k) ==
    LET wrapped == [w EXCEPT !.scripts = @ + 1,
                             !.getContextWraps = @ + 1,
                             !.audioWraps = @ + 1]
    IN  IF w.screenBy # 0
        THEN [wrapped EXCEPT !.errors = @ + 1]
        ELSE [wrapped EXCEPT !.screenBy = k, !.batteryBy = k,
                             !.coresBy = k, !.pluginsBy = k]

\* the scripts k..n run in a new document
RECURSIVE RunInitScripts(_, _, _)
RunInitScripts(w, k, n) ==
    IF k > n THEN w ELSE RunInitScripts(RunScript(w, k), k + 1, n)

NewWindow(n) == RunInitScripts(FreshWindow, 1, n)

\* a mutant of CoresGetter: the getter gives what the machine reports
CoresNotOverridden(w) == RealCores

\* "get: () => [2, 4, 8, 16][Math.floor(Math.random() * 4)]"
CoresGetter(w) == IF w.coresBy # 0 THEN CoreCandidates ELSE RealCores

\* the values a read of the property may give in the document w; for the
\* screen getters the least and the greatest ("screen.width -
\* Math.floor(Math.random() * 10)", "screen.height -
\* Math.floor(Math.random() * 40) - 40")
ReadValues(w, prop) ==
    CASE prop = "hardwareConcurrency" -> CoresGetter(w)
      [] prop = "availWidth" ->
            IF w.screenBy # 0 THEN {Screen.width - 0, Screen.width - 9}
            ELSE {Screen.width}
      [] prop = "availHeight" ->
            IF w.screenBy # 0 THEN {Screen.height - 0 - 40, Screen.height - 39 - 40}
            ELSE {Screen.height}

NoReads == [prop \in Properties |-> <<>>]

\* the last two values read
Remember(seq, v) == IF seq = <<>> THEN <<v>> ELSE <<seq[Len(seq)], v>>

NotApplied == [called |-> FALSE, rejected |-> FALSE, raised |-> FALSE]

\* setupRealisticFingerprint(context): "await context.addInitScript(...)"
\* with no try/catch; a closed context rejects the call
ApplyOutcome(open) == [called |-> TRUE, rejected |-> ~open, raised |-> ~open]

\* "await setupRealisticFingerprint(context)"
ApplyFingerprint ==
    /\ initScripts < MaxInstalls
    /\ apply' = ApplyOutcome(context.open)
    /\ initScripts' = IF context.open THEN initScripts + 1 ELSE initScripts
    /\ UNCHANGED <<window, reads>>
    /\ UNCHANGED nonFingerprintVars

\* the context makes a page, or its page navigates: a new document
NewDocument ==
    /\ context.open
    /\ window' = NewWindow(initScripts)
    /\ reads' = NoReads
    /\ UNCHANGED <<initScripts, apply>>
    /\ UNCHANGED nonFingerprintVars

\* a script of the page reads navigator.hardwareConcurrency,
\* screen.availWidth or screen.availHeight
ReadProperty(prop) ==
    /\ context.open
    /\ window.exists
    /\ \E v \in ReadValues(window, prop) :
          reads' = [reads EXCEPT ![prop] = Remember(@, v)]
    /\ UNCHANGED <<initScripts, window, apply>>
    /\ UNCHANGED nonFingerprintVars

\* a script of the page calls canvas.getContext('2d'): every wrapper of
\* getContext wraps the fillText of the context object once more
GetContext2d ==
    /\ context.open
    /\ window.exists
    /\ window.getContexts < MaxGetContext
    /\ window' = [window EXCEPT !.getContexts = @ + 1,
                                !.layers = @ + window.getContextWraps]
    /\ UNCHANGED <<initScripts, reads, apply>>
    /\ UNCHANGED nonFingerprintVars

\* a script of the page calls fillText: every layer adds "Math.random() *
\* 0.1" to x; shift is the sum in hundredths, least and greatest
FillText ==
    /\ context.open
    /\ window.exists
    /\ window.getContexts > 0
    /\ \E sh \in {0, 9 * window.layers} : window' = [window EXCEPT !.shift = sh]
    /\ UNCHANGED <<initScripts, reads, apply>>
    /\ UNCHANGED nonFingerprintVars

---------------------------------------------------------------------------
(* waitForNetworkIdle (browser-utils.ts).  The closure holds requestCount  *)
(* and timer; the page calls onRequest and onResponse while they are       *)
(* registered.  The promise is resolved by the callback of the timer set   *)
(* in the executor (lines 34-38) and by nothing else: the timer set in     *)
(* onResponse (lines 23-26) only removes the listeners.                    *)

\* "timeout = 5000"
defaultTimeout == 5000

\* Requests the page issues at most.
MaxPageRequests == 3

\* Time that may pass in one step while a timer is pending.
IdleSteps == {1000, 4000}

\* no setTimeout pending
NoTimer == [kind |-> "none", left |-> 0]

\* setTimeout(callback, ms): kind tells the callback, "resolve" for lines
\* 34-38 and "detach" for lines 23-26
SetTimer(kind, ms) == [kind |-> kind, left |-> Max(ms, 0)]

\* waitForNetworkIdle not called: inflight requests of the page have no
\* response yet, issued is the number of requests onRequest was called with
NoIdleWait ==
    [pc |-> "none", requestCount |-> 0, timer |-> NoTimer, listening |-> FALSE,
     timeout |-> 0, inflight |-> 0, issued |-> 0]

\* lines 23-26: "timer = setTimeout(() => { page.off(...); page.off(...) }, timeout)"
OnResponseTimer(timeout) == SetTimer("detach", timeout)

\* lines 14-17: onRequest
onRequest(w) == [w EXCEPT !.requestCount = @ + 1, !.timer = NoTimer]

\* lines 19-28: onResponse
onResponse(w) ==
    LET n == w.requestCount - 1
    IN  [w EXCEPT !.requestCount = n,
                  !.timer = IF n = 0 THEN OnResponseTimer(w.timeout) ELSE @]

\* lines 10-39: the call up to the return of the promise
WaitForNetworkIdle(timeout) ==
    /\ idle.pc = "none"
    /\ idle' = [idle EXCEPT !.pc = "pending", !.requestCount = 0, !.listening = TRUE,
                            !.timeout = timeout, !.timer = SetTimer("resolve", timeout)]
    /\ UNCHANGED <<governorVars, captchaVars, monitorVars, runVars>>
    /\ UNCHANGED <<sessionVars, runNo, pulseVars, behaviourVars, fingerprintVars, script, mouse>>

\* the page issues a request and emits 'request'; the requests that
\* onRequest is called with are counted in issued
PageRequest ==
    /\ idle.inflight < MaxPageRequests
    /\ idle.listening => idle.issued < MaxPageRequests
    /\ LET w == [idle EXCEPT !.inflight = @ + 1]
       IN  idle' = IF idle.listening THEN onRequest([w EXCEPT !.issued = @ + 1]) ELSE w
    /\ UNCHANGED <<governorVars, captchaVars, monitorVars, runVars>>
    /\ UNCHANGED <<sessionVars, runNo, pulseVars, behaviourVars, fingerprintVars, script, mouse>>

\* a request of the page receives its response and the page emits 'response'
PageResponse ==
    /\ idle.inflight > 0
    /\ LET w == [idle EXCEPT !.inflight = @ - 1]
       IN  idle' = IF idle.listening THEN onResponse(w) ELSE w
    /\ UNCHANGED <<governorVars, captchaVars, monitorVars, runVars>>
    /\ UNCHANGED <<sessionVars, runNo, pulseVars, behaviourVars, fingerprintVars, script, mouse>>

\* the pending timer is due and its callback runs: both remove the
\* listeners, the one of lines 34-38 resolves the promise
IdleTimerFires ==
    /\ idle.timer.kind # "none"
    /\ idle.timer.left <= 0
    /\ idle' = [idle EXCEPT !.timer = NoTimer, !.listening = FALSE,
                            !.pc = IF idle.timer.kind = "resolve" THEN "resolved" ELSE @]
    /\ UNCHANGED <<governorVars, captchaVars, monitorVars, runVars>>
    /\ UNCHANGED <<sessionVars, runNo, pulseVars, behaviourVars, fingerprintVars, script, mouse>>

\* time passes while the timer is pending, up to its deadline
IdlePass ==
    /\ idle.timer.kind # "none"
    /\ idle.timer.left > 0
    /\ \E d \in IdleSteps \cup {idle.timer.left} :
          /\ d <= idle.timer.left
          /\ idle' = [idle EXCEPT !.timer.left = @ - d]
    /\ UNCHANGED <<governorVars, captchaVars, monitorVars, runVars>>
    /\ UNCHANGED <<sessionVars, runNo, pulseVars, behaviourVars, fingerprintVars, script, mouse>>

---------------------------------------------------------------------------
(* The driving scripts: the tests of example-mls-automation.spec.ts and of *)
(* mls-matrix-automation.spec.ts, as the statements they await in turn.    *)
(* A statement is a call of rateLimiter.waitIfNeeded ("consult"), an       *)
(* action that makes the site serve a request of the script ("request":    *)
(* a navigation, a submission, a download; the searches of Examples 1 and  *)
(* 3 are placeholders in the scripts), or anything else ("other").         *)

Statement(kind, line) == [kind |-> kind, line |-> line]

\* Example 1, lines 64-94
Example1Script ==
    << Statement("consult", 66), Statement("request", 69), Statement("other", 70),
       Statement("other", 73), Statement("request", 91), Statement("other", 94) >>

\* Example 2, lines 109-136
Example2Script ==
    << Statement("consult", 110), Statement("request", 111), Statement("other", 135),
       Statement("other", 136) >>

\* Example 3, lines 168-185: one turn of the loop over the searches
Example3Turn ==
    << Statement("consult", 173), Statement("request", 176), Statement("other", 180),
       Statement("other", 181), Statement("other", 184) >>

Example3Script == Example3Turn \o Example3Turn \o Example3Turn

\* 'Search and download MLS data' of mls-matrix-automation.spec.ts: loginToMLS,
\* createSearch, downloadCSV.  The file makes no RateLimiter.
MatrixScript ==
    << Statement("request", 52), Statement("other", 58), Statement("request", 135),
       Statement("other", 140), Statement("request", 155), Statement("other", 156),
       Statement("request", 199), Statement("other", 200), Statement("other", 325),
       Statement("request", 231), Statement("other", 260) >>

ScriptNames == {"Example 1", "Example 2", "Example 3", "Matrix"}

StatementsOf(name) ==
    CASE name = "Example 1" -> Example1Script
      [] name = "Example 2" -> Example2Script
      [] name = "Example 3" -> Example3Script
      [] name = "Matrix" -> MatrixScript

\* Scripts run one after the other at most.
MaxScripts == 3

\* no script runs.  consulted: waitIfNeeded has returned since the last
\* request; bare: requests made with no such call before them
NoScript == [name |-> "none", at |-> 0, consulted |-> FALSE, bare |-> 0, runs |-> 0]

\* the statement the script is at
Current == StatementsOf(script.name)[script.at]

\* the script is at a statement of the kind and nothing it awaits is pending
AtStatement(kind) ==
    /\ script.name # "none"
    /\ script.at <= Len(StatementsOf(script.name))
    /\ Current.kind = kind
    /\ pc[1] = "idle"

\* the runner starts a test
StartScript(name) ==
    /\ script.name = "none"
    /\ script.runs < MaxScripts
    /\ script' = [script EXCEPT !.name = name, !.at = 1, !.consulted = FALSE,
                                !.runs = @ + 1]
    /\ UNCHANGED <<governorVars, captchaVars, monitorVars, runVars>>
    /\ UNCHANGED <<sessionVars, runNo, pulseVars, behaviourVars, fingerprintVars, idle, mouse>>

\* "await rateLimiter.waitIfNeeded()"
ScriptConsult ==
    /\ AtStatement("consult")
    /\ Enter(1)
    /\ script' = [script EXCEPT !.at = @ + 1, !.consulted = TRUE]
    /\ UNCHANGED <<captchaVars, monitorVars, runVars>>
    /\ UNCHANGED <<sessionVars, runNo, pulseVars, behaviourVars, fingerprintVars, idle, mouse>>

\* a navigation, a submission or a download
ScriptRequest ==
    /\ AtStatement("request")
    /\ script' = [script EXCEPT !.at = @ + 1, !.consulted = FALSE,
                                !.bare = IF script.consulted THEN @ ELSE @ + 1]
    /\ UNCHANGED <<governorVars, captchaVars, monitorVars, runVars>>
    /\ UNCHANGED <<sessionVars, runNo, pulseVars, behaviourVars, fingerprintVars, idle, mouse>>

\* any other statement
ScriptOther ==
    /\ AtStatement("other")
    /\ script' = [script EXCEPT !.at = @ + 1]
    /\ UNCHANGED <<governorVars, captchaVars, monitorVars, runVars>>
    /\ UNCHANGED <<sessionVars, runNo, pulseVars, behaviourVars, fingerprintVars, idle, mouse>>

\* the test function returns
ScriptEnds ==
    /\ script.name # "none"
    /\ script.at > Len(StatementsOf(script.name))
    /\ script' = [script EXCEPT !.name = "none", !.at = 0, !.consulted = FALSE]
    /\ UNCHANGED <<governorVars, captchaVars, monitorVars, runVars>>
    /\ UNCHANGED <<sessionVars, runNo, pulseVars, behaviourVars, fingerprintVars, idle, mouse>>

---------------------------------------------------------------------------
(* simulateMouseMovement.  Math.random() is a multiple of 1 / RandomGrain  *)
(* in [0, 1); the arithmetic on it is done in integers, exact for extents  *)
(* that are multiples of 10.                                               *)

RandomGrain == 1000

\* values of Math.random(), in units of 1 / RandomGrain, explored for
\* numPoints and steps
RandomDraws == {0, 499, 999}

\* and for the coordinates of a point
CoordinateDraws == {0, 999}

\* page.viewportSize() of a page with no viewport (viewport: null)
NoViewport == [width |-> 0, height |-> 0]

Viewports == {Screen, NoViewport}

\* "3 + Math.floor(Math.random() * 3)"
NumPoints(k) == 3 + (k * 3) \div RandomGrain

\* a mutant of Coordinate: any place of the extent
CoordinateAnywhere(k, extent) == (k * extent) \div RandomGrain

\* "Math.floor(Math.random() * viewport.width * 0.8) + viewport.width * 0.1"
Coordinate(k, extent) == (k * extent * 8) \div (RandomGrain * 10) + extent \div 10

\* lines 67-72: the point made from two values of Math.random()
Point(viewport, kx, ky) ==
    [x |-> Coordinate(kx, viewport.width), y |-> Coordinate(ky, viewport.height)]

\* "steps: 10 + Math.floor(Math.random() * 10)"
MoveSteps(k) == 10 + (k * 10) \div RandomGrain

\* "randomDelay(100, 300)"
MovePause == randomDelay(100, 300)

\* page.mouse.move(point.x, point.y, { steps })
Move(point, steps) == [x |-> point.x, y |-> point.y, steps |-> steps]

NoMove == Move([x |-> 0, y |-> 0], 0)

\* simulateMouseMovement not called.  points: the points not yet moved to;
\* made: the page.mouse.move calls made; last: the last of them
NoMouse ==
    [pc |-> "none", viewport |-> NoViewport, points |-> <<>>, made |-> 0,
     last |-> NoMove, pause |-> 0]

\* the call of page.mouse.move for the first of the points left
StartMove(m, k) ==
    [m EXCEPT !.pc = "moving", !.made = @ + 1, !.last = Move(Head(m.points), MoveSteps(k)),
              !.points = Tail(@)]

\* lines 58-75: from the call to the first await, or to the return when
\* the page has no viewport
SimulateMouseMovement(viewport) ==
    /\ mouse.pc = "none"
    /\ IF viewport = NoViewport
       THEN mouse' = [mouse EXCEPT !.pc = "done"]
       ELSE \E kn \in RandomDraws, ks \in RandomDraws :
              \E draws \in [1..NumPoints(kn) -> CoordinateDraws \X CoordinateDraws] :
                 mouse' = StartMove(
                    [mouse EXCEPT !.viewport = viewport,
                                  !.points = [i \in 1..NumPoints(kn) |->
                                                Point(viewport, draws[i][1], draws[i][2])]],
                    ks)
    /\ UNCHANGED <<governorVars, captchaVars, monitorVars, runVars>>
    /\ UNCHANGED <<sessionVars, runNo, pulseVars, behaviourVars, fingerprintVars, idle, script>>

\* page.mouse.move settles: line 76 starts the pause, or the rejection leaves
\* the function
MouseMoveSettles(ok) ==
    /\ mouse.pc = "moving"
    /\ IF ok
       THEN \E d \in Draws(MovePause) : mouse' = [mouse EXCEPT !.pc = "pausing", !.pause = d]
       ELSE mouse' = [mouse EXCEPT !.pc = "raised"]
    /\ UNCHANGED <<governorVars, captchaVars, monitorVars, runVars>>
    /\ UNCHANGED <<sessionVars, runNo, pulseVars, behaviourVars, fingerprintVars, idle, script>>

\* the pause ends: the loop goes on to the next point, or the function returns
MousePauseEnds ==
    /\ mouse.pc = "pausing"
    /\ IF mouse.points = <<>>
       THEN mouse' = [mouse EXCEPT !.pc = "done"]
       ELSE \E ks \in RandomDraws : mouse' = StartMove(mouse, ks)
    /\ UNCHANGED <<governorVars, captchaVars, monitorVars, runVars>>
    /\ UNCHANGED <<sessionVars, runNo, pulseVars, behaviourVars, fingerprintVars, idle, script>>

---------------------------------------------------------------------------
(* The passing of time.                                                    *)

\* time left on the timers that are pending
Timers ==
    {timer[f] : f \in {g \in Flows : pc[g] # "idle"}}
        \cup {cooling[i].timer : i \in 1..Len(cooling)}

MinOf(S) == CHOOSE x \in S : \A y \in S : x <= y

\* d ms pass
Pass(d) ==
    /\ sinceLast' = Age(sinceLast + d)
    /\ timer' = [f \in Flows |-> IF pc[f] = "idle" THEN timer[f] ELSE timer[f] - d]
    /\ obs' = IF obs.count <= 0 THEN obs
              ELSE [obs EXCEPT !.sinceStart = Age(@ + d)]
    /\ cooling' = [i \in 1..Len(cooling) |-> [cooling[i] EXCEPT !.timer = @ - d]]
    /\ UNCHANGED <<requestCount, pc, sinceAtEntry, waits, captchaVars, runVars, restVars>>
    /\ UNCHANGED <<blockedRequests, responses, observedBlocked, fatalCount, lastDone>>

\* the driving script lets time pass between two calls
AdvanceIdle ==
    /\ Timers = {}
    /\ \E d \in IdleGaps : Pass(d)

\* time passes until the next timer is due, or a little longer
AdvanceToTimer ==
    /\ Timers # {}
    /\ MinOf(Timers) > 0
    /\ \E late \in Lates : Pass(MinOf(Timers) + late)

\* time passes while a handler cools down, short of the next deadline
AdvanceCooling ==
    /\ cooling # <<>>
    /\ \E d \in CoolingSteps : d < MinOf(Timers) /\ Pass(d)

---------------------------------------------------------------------------
(* Example 1 of example-mls-automation.spec.ts, run by the Playwright test *)
(* runner under playwright.config.  The listener's promise is not awaited  *)
(* by the page and nothing in the test function observes it: when the      *)
(* listener throws, the rejection is unhandled.  The runner's worker turns *)
(* an unhandled rejection into a failure of the test that is running and   *)
(* stops the worker before the test function can go on; a failed test is   *)
(* run again, in a new worker, while it has retries left.                  *)

\* "retries: process.env.CI ? 2 : 0"
ciRetries == 2

retries == IF ci THEN ciRetries ELSE 0

\* responses the page of Example 1 is given
RunResponses ==
    { <<200, <<"https://mls", "/", "matrix", "/", "search">> >>,
      <<200, <<"https://mls", "/", "blocked">> >>,
      <<403, <<"https://mls", "/", "access", "/", "denied", "?r=1">> >>,
      <<429, <<"https://mls", "/", "blocked">> >> }

\* documents page.goto may load
RunDocs ==
    { {},
      {Element("iframe", <<"https://", "re", "captcha", ".net/anchor">>, <<>>, <<>>)} }

\* the listener has thrown: the worker is stopping
Interrupted == fatalCount > 0

\* the test function is at statement `at` and goes on to `to`
Advance(at, to) ==
    /\ runStatus = "running"
    /\ ~Interrupted
    /\ runPc = at
    /\ runPc' = to
    /\ UNCHANGED <<attempt, ci>>

\* lines 51-62: session, context, fingerprint, page, listener, jiggler.
\* The context accepts the init script, or it is gone by then and rejects
\* it: line 55 is outside the try and nothing catches, the test function
\* rejects there and the test has failed.
RunSetUp ==
    /\ runStatus = "running"
    /\ ~Interrupted
    /\ runPc = "start"
    /\ loaded' = LoadSessionResult(file)
    /\ \E accepted \in BOOLEAN :
          /\ context' = [open |-> accepted,
                         state |-> NewContextState(ContextOptions(loaded'.value))]
          /\ apply' = ApplyOutcome(accepted)
          /\ runPc' = IF apply'.raised THEN "ended" ELSE "ready"
          /\ runStatus' = IF apply'.raised THEN "failed" ELSE "running"
          /\ initScripts' = IF accepted THEN 1 ELSE 0
          /\ window' = IF apply'.raised THEN NoWindow ELSE NewWindow(initScripts')
          /\ interval' = IF apply'.raised THEN "none" ELSE "active"
          /\ jiggler' = IF apply'.raised THEN "none" ELSE Handle(FALSE)
    /\ reads' = NoReads
    /\ cancelCalled' = FALSE
    /\ pulse' = NoPulse
    /\ UNCHANGED <<file, persisted, runNo, behaviourVars, moreVars>>
    /\ UNCHANGED <<attempt, ci, navigations, governorVars, captchaVars, monitorVars>>

\* "await rateLimiter.waitIfNeeded()" on the module's RateLimiter
RunWaitIfNeeded ==
    /\ Advance("ready", "rate")
    /\ Enter(1)
    /\ UNCHANGED <<navigations, runStatus, captchaVars, monitorVars, restVars>>

\* "await page.goto(MLS_CONFIG.baseUrl)", once waitIfNeeded has returned
RunGoto ==
    /\ pc[1] = "idle"
    /\ Advance("rate", "goto")
    /\ navigations' = navigations + 1
    /\ \E d \in RunDocs : doc' = d
    /\ captchaResult' = <<>>
    /\ window' = NewWindow(initScripts)
    /\ reads' = NoReads
    /\ UNCHANGED <<initScripts, apply>>
    /\ UNCHANGED <<sessionVars, runNo, pulseVars, behaviourVars, moreVars>>
    /\ UNCHANGED <<runStatus, governorVars, monitorVars>>

\* "await simulateRealisticBehavior(page)"
RunBehave ==
    /\ Advance("goto", "behave")
    /\ UNCHANGED <<navigations, runStatus, governorVars, captchaVars, monitorVars, restVars>>

\* "if (await detectCaptcha(page))", with the wait for the manual solving
RunDetectCaptcha ==
    /\ Advance("behave", "captcha")
    /\ captchaResult' = <<detectCaptcha(doc)>>
    /\ UNCHANGED <<navigations, runStatus, doc, governorVars, monitorVars, restVars>>

\* lines 80-91: the search template and "await randomDelay(2000, 4000)"
RunSearch ==
    /\ Advance("captcha", "search")
    /\ UNCHANGED <<navigations, runStatus, governorVars, captchaVars, monitorVars, restVars>>

\* "await persistSession(context, MLS_CONFIG.sessionFile)"
RunPersist ==
    /\ Advance("search", "persist")
    /\ file' = TextFile(Stringify(context.state))
    /\ persisted' = <<context.state>>
    /\ UNCHANGED <<context, loaded, runNo, pulseVars, behaviourVars, fingerprintVars,
                   moreVars>>
    /\ UNCHANGED <<navigations, runStatus, governorVars, captchaVars, monitorVars>>

\* the finally block, and the test function returns
RunFinally ==
    /\ Advance("persist", "ended")
    /\ runStatus' = "passed"
    /\ interval' = ClearInterval(jiggler, interval)
    /\ cancelCalled' = TRUE
    /\ context' = [context EXCEPT !.open = FALSE]
    /\ UNCHANGED <<file, loaded, persisted, runNo, jiggler, pulse, behaviourVars,
                   fingerprintVars, moreVars>>
    /\ UNCHANGED <<navigations, governorVars, captchaVars, monitorVars>>

\* "await page.goto(...)" (line 69) or "await simulateRealisticBehavior(page)"
\* (line 70) rejects: the rest of the try block is skipped, the finally
\* block runs, and the test function rejects
RunStepFails ==
    /\ runStatus = "running"
    /\ ~Interrupted
    /\ runPc \in {"rate", "goto"}
    /\ (runPc = "rate" => pc[1] = "idle")
    /\ navigations' = IF runPc = "rate" THEN navigations + 1 ELSE navigations
    /\ runPc' = "ended"
    /\ runStatus' = "failed"
    /\ interval' = ClearInterval(jiggler, interval)
    /\ cancelCalled' = TRUE
    /\ context' = [context EXCEPT !.open = FALSE]
    /\ UNCHANGED <<file, loaded, persisted, runNo, jiggler, pulse, behaviourVars,
                   fingerprintVars, moreVars>>
    /\ UNCHANGED <<attempt, ci, governorVars, captchaVars, monitorVars>>

\* the page, navigated and not yet closed, emits 'response'
RunResponse(status, url) ==
    /\ runStatus = "running"
    /\ ~Interrupted
    /\ runPc \in {"goto", "behave", "captcha", "search", "persist"}
    /\ ObserveResponse(status, url)

\* a cooldown ends while the test is running
RunFinishCooldown(i) ==
    /\ runStatus = "running"
    /\ ~Interrupted
    /\ FinishCooldown(i)

\* the site sets cookies and storage while the page is on it
RunSiteSetsState(st) ==
    /\ runStatus = "running"
    /\ runPc \in {"goto", "behave", "captcha", "search"}
    /\ SiteSetsState(st)

\* Runs of the script at most.
MaxRuns == 2

\* the script is run again after a run that passed: a new process, with a
\* new RateLimiter, a new page and listener, and the session file as it is
RunAgain ==
    /\ runStatus = "passed"
    /\ runNo < MaxRuns
    /\ runNo' = runNo + 1
    /\ attempt' = 1
    /\ runStatus' = "running"
    /\ runPc' = "start"
    /\ sinceLast' = Stale
    /\ requestCount' = 0
    /\ blockedRequests' = 0
    /\ cooling' = <<>>
    /\ responses' = 0
    /\ observedBlocked' = 0
    /\ fatalCount' = 0
    /\ lastDone' = NoHandling
    /\ doc' = {}
    /\ captchaResult' = <<>>
    /\ interval' = "none"
    /\ jiggler' = "none"
    /\ cancelCalled' = FALSE
    /\ pulse' = NoPulse
    /\ initScripts' = 0
    /\ window' = NoWindow
    /\ reads' = NoReads
    /\ apply' = NotApplied
    /\ UNCHANGED <<ci, navigations, pc, sinceAtEntry, timer, waits, obs, sessionVars,
                   behaviourVars, moreVars>>

\* the worker fails the running test on the unhandled rejection and stops
HostFailsTest ==
    /\ Interrupted
    /\ runStatus = "running"
    /\ runStatus' = "failed"
    /\ runPc' = "ended"
    /\ UNCHANGED <<attempt, ci, navigations, governorVars, captchaVars, monitorVars, restVars>>

\* the runner runs the failed test again in a new worker: the module is
\* loaded anew, and the test makes a new page with a new listener
HostRetries ==
    /\ runStatus = "failed"
    /\ attempt <= retries
    /\ attempt' = attempt + 1
    /\ runStatus' = "running"
    /\ runPc' = "start"
    /\ sinceLast' = Stale
    /\ requestCount' = 0
    /\ blockedRequests' = 0
    /\ cooling' = <<>>
    /\ responses' = 0
    /\ observedBlocked' = 0
    /\ fatalCount' = 0
    /\ lastDone' = NoHandling
    /\ doc' = {}
    /\ captchaResult' = <<>>
    /\ interval' = "none"
    /\ jiggler' = "none"
    /\ cancelCalled' = FALSE
    /\ pulse' = NoPulse
    /\ initScripts' = 0
    /\ window' = NoWindow
    /\ reads' = NoReads
    /\ apply' = NotApplied
    /\ UNCHANGED <<ci, navigations, pc, sinceAtEntry, timer, waits, obs, sessionVars, runNo,
                   behaviourVars, moreVars>>

---------------------------------------------------------------------------
(* Specifications.                                                         *)

\* a new RateLimiter: lastRequestTime = 0, which Date.now() is far past
InitGovernor ==
    /\ sinceLast = Stale
    /\ requestCount = 0
    /\ pc = [f \in Flows |-> "idle"]
    /\ sinceAtEntry = [f \in Flows |-> 0]
    /\ timer = [f \in Flows |-> 0]
    /\ waits = [f \in Flows |-> <<>>]
    /\ obs = ObsIdle

InitGovernorOff ==
    /\ sinceLast = Stale
    /\ requestCount = 0
    /\ pc = [f \in Flows |-> "idle"]
    /\ sinceAtEntry = [f \in Flows |-> 0]
    /\ timer = [f \in Flows |-> 0]
    /\ waits = [f \in Flows |-> <<>>]
    /\ obs = ObsOff

InitCaptcha ==
    /\ doc = {}
    /\ captchaResult = <<>>

InitMonitor ==
    /\ blockedRequests = 0
    /\ cooling = <<>>
    /\ responses = 0
    /\ observedBlocked = 0
    /\ fatalCount = 0
    /\ lastDone = NoHandling

\* Example 1 about to start, CI unset
InitRun ==
    /\ runPc = "start"
    /\ runStatus = "running"
    /\ attempt = 1
    /\ ci = FALSE
    /\ navigations = 0

\* no session file yet, a context made by browser.newContext()
InitSession ==
    /\ file = AbsentFile
    /\ context = [open |-> TRUE, state |-> EmptyState]
    /\ loaded = NotLoaded
    /\ persisted = <<>>

\* startMouseJiggler not called yet
InitPulse ==
    /\ interval = "none"
    /\ jiggler = "none"
    /\ cancelCalled = FALSE
    /\ pulse = NoPulse

\* a context on which setupRealisticFingerprint was not called, no page
InitFingerprint ==
    /\ initScripts = 0
    /\ window = NoWindow
    /\ reads = NoReads
    /\ apply = NotApplied

\* waitForNetworkIdle not called, a page that has made no request
InitMore ==
    /\ idle = NoIdleWait
    /\ script = NoScript
    /\ mouse = NoMouse

InitRest ==
    /\ InitSession /\ runNo = 1 /\ InitPulse /\ sim = NoSimulation /\ InitFingerprint
    /\ InitMore

Init == InitGovernor /\ InitCaptcha /\ InitMonitor /\ InitRun /\ InitRest

\* one flow calls waitIfNeeded, each call awaited before the next
Next ==
    \/ Call(1)
    \/ AfterLimitWait(1)
    \/ AfterJitter(1)
    \/ AdvanceIdle
    \/ AdvanceToTimer

Spec == Init /\ [][Next]_vars

\* The same flow with the observer off, time that keeps passing and an event
\* loop that runs the callback of a timer that is due.
InitFair == InitGovernorOff /\ InitCaptcha /\ InitMonitor /\ InitRun /\ InitRest

NextFair ==
    \/ Call(1)
    \/ AfterLimitWait(1)
    \/ AfterJitter(1)
    \/ AdvanceIdle
    \/ AdvanceToTimer

FairSpec ==
    /\ InitFair /\ [][NextFair]_vars
    /\ WF_vars(AdvanceToTimer)
    /\ WF_vars(AfterLimitWait(1))
    /\ WF_vars(AfterJitter(1))

\* The response listener of one page, with any responses at any times.
NextMonitor ==
    \/ \E status \in Statuses, url \in UrlPool : ObserveResponse(status, url)
    \/ \E i \in 1..MaxCooling : FinishCooldown(i)
    \/ AdvanceToTimer
    \/ AdvanceCooling

MonitorSpec == Init /\ [][NextMonitor]_vars

\* A page whose document changes, checked for a CAPTCHA at any time.
NextCaptcha ==
    \/ \E d \in DocPool : LoadDocument(d)
    \/ DetectCaptcha

CaptchaSpec == InitFair /\ [][NextCaptcha]_vars

\* The session file of one path, written and read at any times.
NextSession ==
    \/ LoadSession
    \/ PersistSession
    \/ \E st \in States : SiteSetsState(st)
    \/ \E f \in FilePool : ExternalWrite(f)

SessionSpec == InitFair /\ [][NextSession]_vars

\* Example 1 under the runner, with CI set or unset.
InitRunner ==
    /\ InitGovernorOff /\ InitCaptcha /\ InitMonitor
    /\ file = AbsentFile
    /\ context = [open |-> FALSE, state |-> EmptyState]
    /\ loaded = NotLoaded
    /\ persisted = <<>>
    /\ runNo = 1
    /\ InitPulse
    /\ sim = NoSimulation
    /\ InitFingerprint
    /\ InitMore
    /\ runPc = "start"
    /\ runStatus = "running"
    /\ attempt = 1
    /\ ci \in BOOLEAN
    /\ navigations = 0

NextRun ==
    \/ RunSetUp
    \/ RunWaitIfNeeded
    \/ RunGoto
    \/ RunBehave
    \/ RunDetectCaptcha
    \/ RunSearch
    \/ RunPersist
    \/ RunFinally
    \/ RunStepFails
    \/ \E r \in RunResponses : RunResponse(r[1], r[2])
    \/ \E i \in 1..MaxCooling : RunFinishCooldown(i)
    \/ AdvanceToTimer
    \/ HostFailsTest
    \/ HostRetries

RunSpec == InitRunner /\ [][NextRun]_vars

\* A context on which setupRealisticFingerprint is called, whose page
\* loads documents and reads the overridden properties.
NextFingerprint ==
    \/ ApplyFingerprint
    \/ NewDocument
    \/ \E prop \in Properties : ReadProperty(prop)
    \/ GetContext2d
    \/ FillText
    \/ ClosePage

FingerprintSpec == InitFair /\ [][NextFingerprint]_vars

\* Calls of the three simulate* functions on a page that may be closed at
\* any time.
NextBehaviour ==
    \/ \E op \in SimulateOps, n \in 1..5 : StartSimulate(op, n)
    \/ \E scrollUp \in BOOLEAN : SimulateInput(scrollUp)
    \/ \E action \in BehaviourActions, n \in 1..5 : SimulateAction(action, n)
    \/ ClosePage

BehaviourSpec == InitFair /\ [][NextBehaviour]_vars

\* Example 1 with the ticks of its mouse jiggler, which go on while the
\* process of the run lives.
NextPulse ==
    \/ RunSetUp
    \/ RunWaitIfNeeded
    \/ RunGoto
    \/ RunBehave
    \/ RunDetectCaptcha
    \/ RunSearch
    \/ RunPersist
    \/ RunFinally
    \/ \E viewport \in BOOLEAN : PulseTick(viewport)
    \/ \E ok \in BOOLEAN : MoveSettles(ok)

PulseSpec == InitRunner /\ [][NextPulse]_vars

\* Example 1 run again and again on a site that sets cookies.
NextSessionRun ==
    \/ RunSetUp
    \/ RunWaitIfNeeded
    \/ RunGoto
    \/ RunBehave
    \/ RunDetectCaptcha
    \/ RunSearch
    \/ RunPersist
    \/ RunFinally
    \/ RunStepFails
    \/ \E st \in States : RunSiteSetsState(st)
    \/ RunAgain

SessionRunSpec == InitRunner /\ [][NextSessionRun]_vars

\* Time a steady caller lets pass after a return before it thinks of the
\* next call.
SteadyGaps == {2500, 30000}

\* the caller issues a call only when more than resetInterval / maxRequests
\* has passed since the previous call returned
SteadyCall ==
    /\ sinceLast > resetInterval \div maxRequests
    /\ Call(1)

\* the steady caller lets time pass between two calls
AdvanceSteady ==
    /\ Timers = {}
    /\ \E d \in SteadyGaps : Pass(d)

\* one flow whose calls are awaited one by one and spaced more than
\* resetInterval / maxRequests apart
NextSteady ==
    \/ SteadyCall
    \/ AfterLimitWait(1)
    \/ AdvanceSteady
    \/ AdvanceToTimer

SteadySpec == InitFair /\ [][NextSteady]_vars

\* two flows call waitIfNeeded on one instance with nothing between them: a
\* flow may enter while the other is suspended inside its call
NextConcurrent ==
    \/ \E f \in Flows : Call(f)
    \/ \E f \in Flows : AfterLimitWait(f)
    \/ \E f \in Flows : AfterJitter(f)
    \/ AdvanceIdle
    \/ AdvanceToTimer

ConcurrentSpec == InitFair /\ [][NextConcurrent]_vars

\* The tests run one after the other in one worker, on the module's
\* RateLimiter.  Fewer than maxRequests calls are made in all, so no call
\* waits on the request limit.
NextScripts ==
    \/ \E name \in ScriptNames : StartScript(name)
    \/ ScriptConsult
    \/ ScriptRequest
    \/ ScriptOther
    \/ ScriptEnds
    \/ AfterJitter(1)
    \/ AdvanceIdle
    \/ AdvanceToTimer

ScriptsSpec == InitFair /\ [][NextScripts]_vars

\* one simulateMouseMovement call
NextMouse ==
    \/ \E viewport \in Viewports : SimulateMouseMovement(viewport)
    \/ \E ok \in BOOLEAN : MouseMoveSettles(ok)
    \/ MousePauseEnds

MouseSpec == InitFair /\ [][NextMouse]_vars

\* one waitForNetworkIdle call on a page that issues requests and receives
\* their responses
NextNetworkIdle ==
    \/ WaitForNetworkIdle(defaultTimeout)
    \/ PageRequest
    \/ PageResponse
    \/ IdleTimerFires
    \/ IdlePass

\* Time keeps passing, the event loop runs the callback of a timer that is
\* due, and every request receives its response.
NetworkIdleSpec ==
    /\ InitFair /\ [][NextNetworkIdle]_vars
    /\ WF_vars(IdlePass) /\ WF_vars(IdleTimerFires) /\ WF_vars(PageResponse)

---------------------------------------------------------------------------
(* Claims about the RateLimiter, for calls that are awaited one by one.    *)

\* C1: among the returns of waitIfNeeded, no 31 lie within 60,000 ms of one
\* another: when the 31st return counted from any return happens, more
\* than resetInterval has passed since that return.
RollingWindowLimit ==
    obs.count > maxRequests => obs.sinceStart > resetInterval

\* maxRequests returns lie within one window, with idle time between some
RollingWindowWitness ==
    obs.count = maxRequests /\ obs.sinceStart <= resetInterval /\ ~obs.burst

\* C2: after a call has completed the count is at most maxRequests; a call
\* that finds the count at maxRequests suspends without incrementing it, and
\* leaves the suspension only once resetInterval has passed since the last
\* request, with the count reset (0, or 1 when it returns at once).
CountWithinLimit ==
    [][ /\ (pc'[1] = "idle" => requestCount' <= maxRequests)
        /\ (pc[1] = "idle" /\ pc'[1] # "idle" /\ requestCount >= maxRequests
                /\ sinceLast <= resetInterval
              => /\ pc'[1] = "limitWait"
                 /\ requestCount' = requestCount
                 /\ timer'[1] = resetInterval - sinceLast)
        /\ (pc[1] = "limitWait" /\ pc'[1] # "limitWait"
              => /\ timer[1] <= 0
                 /\ sinceLast >= resetInterval
                 /\ requestCount' = IF pc'[1] = "idle" THEN 1 ELSE 0) ]_vars

\* a call is suspended on the rate limit
CountWithinLimitWitness == pc[1] = "limitWait" /\ requestCount = maxRequests

\* C3: in a burst (every call issued at the time the previous one returned)
\* the (maxRequests + 1)-th call does not return before resetInterval has
\* passed since the first call returned.
BurstHeldBack ==
    (obs.burst /\ obs.count > maxRequests) => obs.sinceStart >= resetInterval

\* the (maxRequests + 1)-th call of a burst has returned
BurstHeldBackWitness == obs.burst /\ obs.count = maxRequests + 1

\* C4: every suspension a call enters is asked for a duration between 0 and
\* resetInterval, and every call that has been entered returns.
EveryCallCompletes ==
    /\ [](\A i \in 1..Len(waits[1]) : waits[1][i] >= 0 /\ waits[1][i] <= resetInterval)
    /\ [](pc[1] # "idle" => <>(pc[1] = "idle"))

\* a call is suspended on the rate limit for a whole second or more
EveryCallCompletesWitness == pc[1] = "limitWait" /\ timer[1] >= 1000


---------------------------------------------------------------------------
(* Claims about the response listener.                                     *)

\* the suspended handlers whose response has a block-page URL
CoolingBlocked ==
    Cardinality({i \in 1..Len(cooling) : IsBlockPage(cooling[i].url)})

\* C5 as stated: the listener has thrown exactly when more than 3 responses
\* with a block-page URL have been observed.
FatalOnFourthObserved ==
    (observedBlocked > 3) <=> (fatalCount > 0)

\* C5, amended: a response with a block-page URL is counted when its handler
\* reaches the check, which for a 429 is after its cooldown; the handler
\* throws exactly when its own increment takes the counter above 3.  So
\* nothing is thrown while at most 3 such responses have been observed, and
\* once no handler is cooling down the listener has thrown exactly when more
\* than 3 were observed.
FatalOnFourthCounted ==
    /\ blockedRequests + CoolingBlocked = observedBlocked
    /\ fatalCount = Max(blockedRequests - 3, 0)
    /\ (lastDone.raised <=> (IsBlockPage(lastDone.url) /\ lastDone.blocked > 3))
    /\ (fatalCount > 0 => observedBlocked > 3)
    /\ (cooling = <<>> => ((observedBlocked > 3) <=> (fatalCount > 0)))

\* the 4th counted response has thrown, with another response among the five
FatalOnFourthWitness ==
    /\ fatalCount = 1 /\ lastDone.raised
    /\ blockedRequests = 4 /\ responses = 5

\* C7: a handler of a 429 asks for a cooldown between 30,000 and 60,000 ms
\* and ends no sooner than the cooldown after the response was observed.
CooldownEnforced ==
    /\ \A i \in 1..Len(cooling) :
          /\ cooling[i].status = 429
          /\ cooling[i].cooldown >= 30000 /\ cooling[i].cooldown <= 60000
          /\ cooling[i].timer <= cooling[i].cooldown
    /\ (lastDone.status = 429
          => /\ lastDone.cooldown >= 30000 /\ lastDone.cooldown <= 60000
             /\ lastDone.took >= lastDone.cooldown)

\* the handling of a 429 has ended
CooldownWitness == lastDone.status = 429 /\ lastDone.took >= 30000

\* C8 as stated: a response yields at most one kind of signal, and the block
\* pattern is not looked for when the status is 429, 401 or 403.
FirstMatchWins ==
    /\ Cardinality(lastDone.signals) <= 1
    /\ (lastDone.status \in {429, 401, 403} => "BlockedPattern" \notin lastDone.signals)

\* C8, amended: the three checks are independent.  A 429 yields RateLimited,
\* a 401 or 403 yields AuthRejected, and a response of any status whose URL
\* has a block pattern yields BlockedPattern as well and has been counted.
ChecksAreIndependent ==
    lastDone.status # 0 =>
        /\ ("RateLimited" \in lastDone.signals <=> lastDone.status = 429)
        /\ ("AuthRejected" \in lastDone.signals <=> lastDone.status \in {401, 403})
        /\ ("BlockedPattern" \in lastDone.signals <=> IsBlockPage(lastDone.url))
        /\ (IsBlockPage(lastDone.url) => lastDone.blocked >= 1)
        /\ lastDone.blocked = blockedRequests

\* a 403 on a "/denied" URL has been handled: both signals, counter at 1
ChecksAreIndependentWitness ==
    /\ lastDone.status = 403
    /\ Includes(lastDone.url, <<"/", "denied">>)
    /\ lastDone.signals = {"AuthRejected", "BlockedPattern"}
    /\ lastDone.blocked = 1

\* C9 as stated: the handling of a 401 or 403 is not suspended, warns, and
\* never throws.
AuthNeverFatal ==
    lastDone.status \in {401, 403} =>
        /\ lastDone.cooldown = 0 /\ lastDone.took = 0
        /\ "AuthRejected" \in lastDone.signals
        /\ ~lastDone.raised

\* C9, amended: the handling of a 401 or 403 is not suspended and warns; it
\* throws exactly when the URL of the response has a block pattern and its
\* increment takes the counter above 3.
AuthHandledAtOnce ==
    lastDone.status \in {401, 403} =>
        /\ lastDone.cooldown = 0 /\ lastDone.took = 0
        /\ "AuthRejected" \in lastDone.signals
        /\ (lastDone.raised <=> (IsBlockPage(lastDone.url) /\ lastDone.blocked > 3))

\* a 403 has been handled without a throw
AuthHandledAtOnceWitness ==
    /\ lastDone.status = 403 /\ ~lastDone.raised
    /\ "AuthRejected" \in lastDone.signals

---------------------------------------------------------------------------
(* Claims about the session file.                                          *)

\* C11: loadSession never raises and never changes the file; it returns null
\* when nothing is at the path, when the file cannot be read and when its
\* text does not parse, and the written state when the text is that of a
\* state.
LoadNeverRaises ==
    [][loaded' # loaded
          => /\ file' = file
             /\ ~loaded'.raised
             /\ (file.kind \in {"absent", "unreadable"} => loaded'.value = NoSession)
             /\ (file.kind = "file" /\ file.text \in BrokenTexts
                    => loaded'.value = NoSession)
             /\ \A st \in States :
                    file = TextFile(Stringify(st)) => loaded'.value = st
             /\ (loaded'.value # NoSession => file.kind = "file") ]_vars

\* null has been returned for a text that does not parse
LoadNeverRaisesWitness ==
    /\ loaded.called /\ loaded.warned /\ loaded.value = NoSession
    /\ file.kind = "file" /\ file.text \in BrokenTexts

\* C12: a loadSession that follows a persistSession of the state s, with
\* nothing else written to the path in between, returns s, whatever the path
\* held before.
RoundTrip ==
    [][loaded' # loaded /\ persisted # <<>>
          => loaded'.value = persisted[1] /\ ~loaded'.raised ]_vars

\* a state with two cookies has come back from the file
RoundTripWitness ==
    /\ persisted # <<>> /\ loaded.called
    /\ loaded.value = persisted[1]
    /\ Len(loaded.value.cookies) = 2

\* C13: in a run that follows a run that persisted the state s, the context
\* made at the start has been given s: loadSession returned s and the new
\* context starts with s.
SessionRestored ==
    (runNo > 1 /\ runPc = "ready" /\ persisted # <<>>)
        => loaded.value = persisted[1] /\ context.state = persisted[1]

---------------------------------------------------------------------------
(* Claims about the idle pulse.                                            *)

\* C14: once the caller has called clearInterval with the handle that
\* startMouseJiggler returned, no tick runs.
NoTickAfterCancel == pulse.afterCancel = 0

\* C15: a pointer move that fails in a tick is swallowed, never left as an
\* error of the process, and unless the interval has been cleared it stays
\* active, so that a later tick can fire.
TickFailureSwallowed ==
    /\ pulse.unhandled = 0
    /\ pulse.swallowed + pulse.pending <= pulse.ticks
    /\ (pulse.swallowed > 0 /\ pulse.ticks < MaxTicks /\ interval # "cleared"
          => interval = "active" /\ ENABLED PulseTick(TRUE))

\* a tick has fired after the move of an earlier tick failed on the closed page
TickFailureSwallowedWitness ==
    /\ ~context.open
    /\ pulse.swallowed >= 1
    /\ pulse.afterFailure >= 1

---------------------------------------------------------------------------
(* Claims about the simulate* functions.                                   *)

\* C16: no call of simulateMouseMovement, humanScroll or
\* simulateRealisticBehavior raises to its caller, also when the page is
\* closed in the middle of it.
SimulateNeverRaises == sim.outcome # "raised"

---------------------------------------------------------------------------
(* Claims about the fingerprint.                                           *)

\* C17: in a document in which the init script ran, every read of
\* navigator.hardwareConcurrency gives 2, 4, 8 or 16.
CoresFromCandidates ==
    [][(reads'["hardwareConcurrency"] # reads["hardwareConcurrency"]
            /\ window'.scripts >= 1 /\ reads'["hardwareConcurrency"] # <<>>)
          => LET seq == reads'["hardwareConcurrency"]
             IN  seq[Len(seq)] \in {2, 4, 8, 16} ]_vars

\* two reads in a document with the override gave two members of the set
CoresFromCandidatesWitness ==
    /\ window.scripts >= 1
    /\ reads["hardwareConcurrency"] = <<2, 16>>

\* C18: two reads of the same overridden property in one document give the
\* same value.
ReadsAreStable ==
    \A prop \in Properties :
        Len(reads[prop]) = 2 => reads[prop][1] = reads[prop][2]

\* C19: in a document of a context on which setupRealisticFingerprint was
\* called twice, no init script fails, the overrides in force are those of
\* the second call, and fillText moves x by less than 0.1.
ApplyTwiceIsIdempotent ==
    (window.exists /\ window.scripts = 2)
        => /\ window.errors = 0
           /\ window.screenBy = 2 /\ window.batteryBy = 2
           /\ window.coresBy = 2 /\ window.pluginsBy = 2
           /\ window.shift < 10

---------------------------------------------------------------------------
(* Claims about the run of Example 1.                                      *)

\* C6: once the listener has thrown, the driving flow navigates no more,
\* the run is not started again, and the run does not end as passed.
FatalAbortsRun ==
    [][Interrupted
          => /\ navigations' = navigations
             /\ attempt' = attempt
             /\ runStatus' # "passed" ]_vars

\* C20: when the context rejects the init script, setupRealisticFingerprint
\* does not raise to the run, and the run does not fail on it.
InjectionFailureTolerated ==
    apply.rejected => ~apply.raised /\ runStatus # "failed"

---------------------------------------------------------------------------
(* Claims about detectCaptcha.                                             *)

\* the six markers, as the claim lists them
HasMarker(d) ==
    \E e \in d :
        \/ e.tag = "iframe" /\ Includes(e.src, <<"re", "captcha">>)
        \/ e.tag = "iframe" /\ Includes(e.src, <<"captcha">>)
        \/ \E i \in 1..Len(e.classes) : e.classes[i] = <<"g-", "re", "captcha">>
        \/ e.id = <<"captcha">>
        \/ \E i \in 1..Len(e.classes) : Includes(e.classes[i], <<"captcha">>)
        \/ e.tag = "img" /\ Includes(e.src, <<"captcha">>)

\* C10: detectCaptcha returns true exactly when the document has an element
\* that matches one of the six markers, and the check changes neither the
\* document nor the state of the RateLimiter or of the response listener.
CaptchaIffMarker ==
    [][captchaResult' # <<>> /\ captchaResult' # captchaResult
          => /\ captchaResult' = <<HasMarker(doc)>>
             /\ UNCHANGED <<doc, governorVars, monitorVars, runVars, restVars>> ]_vars

\* true for a document whose only marker is a reCAPTCHA iframe
CaptchaIffMarkerWitness ==
    /\ captchaResult = <<TRUE>>
    /\ \A e \in doc : e.tag = "iframe"
    /\ \E e \in doc : Includes(e.src, <<"re", "captcha">>)

---------------------------------------------------------------------------
(* More claims about the RateLimiter.                                      *)

\* C22: a caller whose calls are each spaced more than
\* resetInterval / maxRequests apart is never suspended on the request limit:
\* the count starts again once resetInterval has passed since the count
\* was last started.
SteadyCallerNeverSuspended == pc[1] # "limitWait"

\* C23: the suspension on the request limit and the natural delay are
\* alternatives: no call is suspended twice, so no call is suspended for
\* longer than resetInterval.
BranchesAreAlternatives == Len(waits[1]) <= 1

\* C24: a call that finds the count below maxRequests, entered e after the
\* previous request: when e < 2000 it is suspended once, for a duration
\* between 2000 - e and 4000; when e >= 2000 it returns without suspension.
JitterWithinRange ==
    [][ /\ pc[1] = "idle"
        /\ (requestCount < maxRequests \/ sinceLast > resetInterval)
        /\ (pc'[1] # "idle" \/ (sinceLast' = 0 /\ sinceLast # 0))
        => IF sinceLast < minSpacing
           THEN /\ pc'[1] = "jitterWait"
                /\ waits'[1] = <<timer'[1]>>
                /\ timer'[1] >= minSpacing - sinceLast
                /\ timer'[1] <= maxJitter
           ELSE pc'[1] = "idle" /\ waits'[1] = <<>> ]_vars

\* a call entered 1000 ms after the previous request is suspended for 4000 ms
JitterWithinRangeWitness ==
    /\ pc[1] = "jitterWait"
    /\ requestCount < maxRequests
    /\ sinceAtEntry[1] = 1000
    /\ waits[1] = <<4000>>

\* C24 as stated: the suspension is at most 2000 - e + 2000
JitterWithinFloorPlus2000 ==
    [][ /\ pc[1] = "idle"
        /\ (requestCount < maxRequests \/ sinceLast > resetInterval)
        /\ pc'[1] # "idle"
        => /\ timer'[1] >= minSpacing - sinceLast
           /\ timer'[1] <= minSpacing - sinceLast + 2000 ]_vars

\* C25: two consecutive returns of waitIfNeeded are at least 2000 ms apart,
\* whichever branch the later call takes: at every return, at least 2000 ms
\* have passed since the previous request was recorded.
MinimumSpacing ==
    [][ /\ pc'[1] = "idle"
        /\ sinceLast' = 0
        /\ (pc[1] # "idle" \/ sinceLast # 0)
        => sinceLast >= minSpacing ]_vars

\* a call has just returned exactly 2000 ms after the previous return
MinimumSpacingWitness ==
    /\ obs.count = 2
    /\ obs.sinceStart = minSpacing
    /\ sinceLast = 0
    /\ pc[1] = "idle"

\* C26: with two flows in waitIfNeeded at the same time the count can pass
\* maxRequests, and it passes it only at the return of a call that read the
\* count below maxRequests before its suspension and found it at maxRequests
\* after it: nothing in the class keeps the second flow out.
UnserializedOvershoot ==
    [][ requestCount' > maxRequests /\ requestCount <= maxRequests
        => \E f \in Flows :
              /\ pc[f] = "jitterWait" /\ pc'[f] = "idle"
              /\ requestCount = maxRequests
              /\ requestCount' = maxRequests + 1 ]_vars

\* the count is above maxRequests
UnserializedOvershootWitness == requestCount > maxRequests

---------------------------------------------------------------------------
(* Claims about waitForNetworkIdle.                                        *)

\* C21: the promise returned by waitForNetworkIdle is resolved in the end,
\* whatever requests and responses the page has during the wait, provided
\* every request receives its response.
NetworkIdleResolves == (idle.pc = "pending") ~> (idle.pc = "resolved")

---------------------------------------------------------------------------
(* Claims about the driving scripts.                                       *)

\* C27: from the time a 429 response is observed until its cooldown has
\* elapsed, the test function of Example 1 goes on to no request-equivalent
\* step: neither the navigation of line 69 nor the search of lines 80-91.
CooldownGatesDriver ==
    [][cooling # <<>> /\ runPc' # runPc => runPc' \notin {"goto", "search"}]_vars

\* C28: the context is closed only once persistSession has completed in the
\* same run, whether the run ends normally or by a failure of a step.
PersistBeforeClose ==
    [][context.open /\ ~context'.open => runPc = "persist"]_vars

\* C29: every request of every driving script is made after a
\* waitIfNeeded call that returned since the script's previous request.
EveryRequestConsulted == script.bare = 0

---------------------------------------------------------------------------
(* Claims about simulateMouseMovement.                                     *)

\* C30: every page.mouse.move of simulateMouseMovement goes to a point
\* with 0.1 width <= x <= 0.9 width and 0.1 height <= y <= 0.9 height, with
\* 10 to 20 steps, and is followed by a pause of 100 to 300 ms; a call that
\* returns has made 3 to 5 moves, and none when the page has no viewport.
MouseConfined ==
    /\ mouse.made > 0 =>
          /\ 10 * mouse.last.x >= mouse.viewport.width
          /\ 10 * mouse.last.x <= 9 * mouse.viewport.width
          /\ 10 * mouse.last.y >= mouse.viewport.height
          /\ 10 * mouse.last.y <= 9 * mouse.viewport.height
          /\ mouse.last.steps >= 10 /\ mouse.last.steps <= 20
    /\ mouse.pc = "pausing" => mouse.pause >= 100 /\ mouse.pause <= 300
    /\ mouse.made <= 5
    /\ mouse.pc = "done" =>
          IF mouse.viewport = NoViewport THEN mouse.made = 0
          ELSE mouse.made >= 3

\* a call has returned after five moves, the last one near the far edge of
\* the central area
MouseConfinedWitness ==
    /\ mouse.pc = "done"
    /\ mouse.made = 5
    /\ 10 * mouse.last.x > 8 * mouse.viewport.width
    /\ mouse.last.steps = 19

====
